---- MODULE Spec2Model ----
(***************************************************************************)
(* Pebble: a small ORM over SQLite (rusqlite + serde_json).                *)
(*                                                                         *)
(* The model has three layers, as the crate has:                           *)
(*   - the record types and their Model descriptors (tests.rs, model.rs),  *)
(*   - Database (db.rs) and QueryBuilder (query.rs), which render SQL text *)
(*     and bind parameters,                                                *)
(*   - the storage engine reached through rusqlite's Connection, which     *)
(*     reads the SQL text and the bound parameters and nothing else.       *)
(*                                                                         *)
(* A string value (String, &str bound as a parameter) is a sequence of     *)
(* one-character strings.  SQL text is a sequence of tokens, the way the   *)
(* engine's tokenizer reads it: every format!() template of the crate      *)
(* separates its holes by blanks or punctuation, so the token boundaries   *)
(* of the rendered text are those of its pieces.                           *)
(***************************************************************************)
EXTENDS Integers, Sequences, FiniteSets, TLC

VARIABLES
    tables,   \* the engine's schema and rows: table name -> NoTable or a table
    qb,       \* the QueryBuilder value the caller holds, or NoBuilder
    stmts,    \* the statements the last call handed to the Connection
    ret       \* the last call and what it returned

vars == <<tables, qb, stmts, ret>>

(***************************************************************************)
(* Bounds of the model.                                                    *)
(***************************************************************************)
MaxKey == 2
MaxPreds == 2
MaxLimit == 2

(***************************************************************************)
(* Strings.                                                                *)
(***************************************************************************)
DigitChars == <<"0", "1", "2", "3", "4", "5", "6", "7", "8", "9">>

IsDigit(c) == \E d \in 1..10 : DigitChars[d] = c

DigitVal(c) == (CHOOSE d \in 1..10 : DigitChars[d] = c) - 1

\* The byte of each character the model's strings use (ASCII).
AsciiCode(c) ==
    CASE c = " " -> 32 [] c = "%" -> 37 [] c = "'" -> 39 [] c = "+" -> 43
      [] c = "-" -> 45 [] c = ";" -> 59 [] c = "=" -> 61
      [] IsDigit(c) -> 48 + DigitVal(c)
      [] c = "A" -> 65 [] c = "B" -> 66 [] c = "D" -> 68 [] c = "E" -> 69
      [] c = "L" -> 76 [] c = "N" -> 78 [] c = "O" -> 79 [] c = "P" -> 80
      [] c = "R" -> 82 [] c = "T" -> 84 [] c = "U" -> 85
      [] c = "a" -> 97 [] c = "b" -> 98 [] c = "e" -> 101 [] c = "f" -> 102
      [] c = "l" -> 108 [] c = "o" -> 111 [] c = "r" -> 114 [] c = "s" -> 115
      [] c = "t" -> 116 [] c = "u" -> 117

RECURSIVE NatToString(_)
\* <integer as Display>::fmt for n >= 0: the decimal digits, no leading zero.
NatToString(n) ==
    IF n < 10 THEN <<DigitChars[n + 1]>>
    ELSE NatToString(n \div 10) \o <<DigitChars[(n % 10) + 1]>>

\* i32/i64/usize to_string(), serde_json::Number::to_string() of an integer.
IntToString(n) == IF n < 0 THEN <<"-">> \o NatToString(-n) ELSE NatToString(n)

RECURSIVE DigitsValue(_)
DigitsValue(s) ==
    IF s = <<>> THEN 0
    ELSE 10 * DigitsValue(SubSeq(s, 1, Len(s) - 1)) + DigitVal(s[Len(s)])

AllDigits(s) == s # <<>> /\ \A i \in 1..Len(s) : IsDigit(s[i])

RECURSIVE TrimLeft(_)
TrimLeft(s) == IF s # <<>> /\ s[1] = " " THEN TrimLeft(Tail(s)) ELSE s

RECURSIVE TrimRight(_)
TrimRight(s) ==
    IF s # <<>> /\ s[Len(s)] = " " THEN TrimRight(SubSeq(s, 1, Len(s) - 1)) ELSE s

\* memcmp order of two strings (SQLite's BINARY collation, Rust's Ord for str):
\* -1, 0 or 1.

RECURSIVE StrCmp(_, _)
StrCmpFrom(d, a, b) == IF d # 0 THEN d ELSE StrCmp(Tail(a), Tail(b))

StrCmp(a, b) ==
    IF a = <<>> THEN (IF b = <<>> THEN 0 ELSE -1)
    ELSE IF b = <<>> THEN 1
    ELSE StrCmpFrom(AsciiCode(a[1]) - AsciiCode(b[1]), a, b)

(***************************************************************************)
(* The record types of the crate's tests and their Model descriptors.      *)
(***************************************************************************)
Types == {"User", "Post"}

\* Model is open to implementors, and fields() is written by hand next to the
\* struct: Draft is a record type whose fields() names an attribute, slug,
\* that its struct { id: i32, title: String } does not have.
DescriptorTypes == {"User", "Draft"}

\* Model::table_name
table_name(T) ==
    IF T = "User" THEN "users" ELSE IF T = "Post" THEN "posts" ELSE "drafts"

\* Model::fields
fields(T) ==
    IF T = "User" THEN <<"id", "name", "email">>
    ELSE IF T = "Post" THEN <<"id", "title", "content", "author_id">>
    ELSE <<"id", "title", "slug">>

\* Model::primary_key (the trait's default: neither type overrides it)
primary_key(T) == "id"

\* The declared type of each attribute of the struct.
FieldKind(T, f) ==
    IF f = "id" \/ f = "author_id" THEN "i32" ELSE "String"

\* The attributes #[derive(Serialize, Deserialize)] sees: the struct's own.
StructFields(T) == IF T = "Draft" THEN <<"id", "title">> ELSE fields(T)

Range(s) == {s[i] : i \in 1..Len(s)}

IndexOf(s, x) ==
    IF \E i \in 1..Len(s) : s[i] = x
    THEN CHOOSE i \in 1..Len(s) : s[i] = x /\ \A j \in 1..(i - 1) : s[j] # x
    ELSE 0

(***************************************************************************)
(* serde_json::Value, and Result.                                          *)
(***************************************************************************)
JNull == [j |-> "Null"]
JBool(b) == [j |-> "Bool", b |-> b]
JNumber(n) == [j |-> "Number", n |-> n]
JString(s) == [j |-> "String", s |-> s]

Ok(v) == [ok |-> TRUE, v |-> v]
Err(e) == [ok |-> FALSE, e |-> e]

\* Option
None == [some |-> FALSE]
Some(v) == [some |-> TRUE, v |-> v]

\* serde_json::to_value of a record: an Object with one entry per attribute.
to_value(T, model) ==
    [f \in Range(StructFields(T)) |->
        IF FieldKind(T, f) = "i32" THEN JNumber(model[f]) ELSE JString(model[f])]

\* The match of db.rs that turns a Value into the String that is bound.
value_str(value) ==
    CASE value.j = "String" -> value.s
      [] value.j = "Number" -> IntToString(value.n)
      [] value.j = "Bool" -> (IF value.b THEN <<"t", "r", "u", "e">>
                                            ELSE <<"f", "a", "l", "s", "e">>)
      [] value.j = "Null" -> <<"N", "U", "L", "L">>

\* An SQL value with its storage class: a bound parameter as rusqlite's ToSql
\* hands it over (String: text, i64: integer), and a stored cell.
SqlInt(n) == [cls |-> "integer", i |-> n]
SqlText(s) == [cls |-> "text", s |-> s]
SqlNull == [cls |-> "null"]

(***************************************************************************)
(* SQL text.                                                               *)
(***************************************************************************)
RECURSIVE Join(_, _)
\* [..].join(sep) over pieces that are token sequences
Join(pieces, sep) ==
    IF pieces = <<>> THEN <<>>
    ELSE IF Len(pieces) = 1 THEN pieces[1]
    ELSE pieces[1] \o sep \o Join(Tail(pieces), sep)

Statement(sql, params) == [sql |-> sql, params |-> params]

\* db.rs create_table: the CREATE TABLE text
\* CREATE TABLE without IF NOT EXISTS
CreateTableSqlUnguarded(T) ==
    <<"CREATE", "TABLE", table_name(T), "(">>
        \o Join([i \in 1..Len(fields(T)) |->
                    IF fields(T)[i] = primary_key(T)
                    THEN <<fields(T)[i], "INTEGER", "PRIMARY", "KEY">>
                    ELSE <<fields(T)[i], "TEXT">>], <<",">>)
        \o <<")">>

CreateTableSql(T) ==
    LET field_definitions ==
            [i \in 1..Len(fields(T)) |->
                IF fields(T)[i] = primary_key(T)
                THEN <<fields(T)[i], "INTEGER", "PRIMARY", "KEY">>
                ELSE <<fields(T)[i], "TEXT">>]
    IN  <<"CREATE", "TABLE", "IF", "NOT", "EXISTS", table_name(T), "(">>
            \o Join(field_definitions, <<",">>) \o <<")">>

FieldList(T) == Join([i \in 1..Len(fields(T)) |-> <<fields(T)[i]>>], <<",">>)

\* db.rs insert: the INSERT text, one placeholder per field
InsertSql(T) ==
    <<"INSERT", "INTO", table_name(T), "(">> \o FieldList(T)
        \o <<")", "VALUES", "(">>
        \o Join([i \in 1..Len(fields(T)) |-> <<"?">>], <<",">>) \o <<")">>

\* db.rs select_all
SelectAllSql(T) == <<"SELECT">> \o FieldList(T) \o <<"FROM", table_name(T)>>

\* db.rs find_by_id
FindByIdSql(T) ==
    <<"SELECT">> \o FieldList(T)
        \o <<"FROM", table_name(T), "WHERE", primary_key(T), "=", "?">>

\* db.rs delete
\* DELETE with > for =
DeleteSqlGreater(T) == <<"DELETE", "FROM", table_name(T), "WHERE", primary_key(T), ">", "?">>

DeleteSql(T) == <<"DELETE", "FROM", table_name(T), "WHERE", primary_key(T), "=", "?">>

\* db.rs drop_table
\* DROP TABLE without IF EXISTS
DropTableSqlUnguarded(T) == <<"DROP", "TABLE", table_name(T)>>

DropTableSql(T) == <<"DROP", "TABLE", "IF", "EXISTS", table_name(T)>>

NonKeyFields(T) == SelectSeq(fields(T), LAMBDA f : f # primary_key(T))

\* the update of every row whose key is below the record's
UpdateSqlBelow(T) ==
    LET set_clauses == [i \in 1..Len(NonKeyFields(T)) |-> <<NonKeyFields(T)[i], "=", "?">>]
    IN  <<"UPDATE", table_name(T), "SET">> \o Join(set_clauses, <<",">>)
            \o <<"WHERE", primary_key(T), "<", "?">>

\* db.rs update: SET over every field but the primary key
UpdateSql(T) ==
    LET set_clauses == [i \in 1..Len(NonKeyFields(T)) |-> <<NonKeyFields(T)[i], "=", "?">>]
    IN  <<"UPDATE", table_name(T), "SET">> \o Join(set_clauses, <<",">>)
            \o <<"WHERE", primary_key(T), "=", "?">>

(***************************************************************************)
(* The storage engine behind rusqlite::Connection (SQLite), for the        *)
(* statements the crate renders.  It sees the SQL text and the bound       *)
(* parameters only.  A table keeps its rows in rowid order; the INTEGER    *)
(* PRIMARY KEY column is the rowid.                                        *)
(***************************************************************************)
NoTable == [exists |-> FALSE]

Table(cols, rows) == [exists |-> TRUE, cols |-> cols, rows |-> rows]

HasTable(db, t) == t \in DOMAIN db /\ db[t].exists

Row(rowid, cells) == [rowid |-> rowid, cells |-> cells]

ColIndex(tbl, name) ==
    IF \E i \in 1..Len(tbl.cols) : tbl.cols[i].name = name
    THEN CHOOSE i \in 1..Len(tbl.cols) : tbl.cols[i].name = name
    ELSE 0

PkIndex(tbl) ==
    IF \E i \in 1..Len(tbl.cols) : tbl.cols[i].pk
    THEN CHOOSE i \in 1..Len(tbl.cols) : tbl.cols[i].pk
    ELSE 0

\* Text that SQLite reads as an integer when a column's INTEGER affinity is
\* applied to it: blanks, a sign, decimal digits, blanks.
NumeralBody(s) ==
    LET t == TrimRight(TrimLeft(s))
    IN  IF t # <<>> /\ (t[1] = "-" \/ t[1] = "+") THEN Tail(t) ELSE t

TextIsInteger(s) == AllDigits(NumeralBody(s))

TextIntValue(s) ==
    IF TrimLeft(s)[1] = "-" THEN -DigitsValue(NumeralBody(s)) ELSE DigitsValue(NumeralBody(s))

\* INTEGER affinity applied to a value
NumericAffinity(v) ==
    IF v.cls = "text" /\ TextIsInteger(v.s) THEN SqlInt(TextIntValue(v.s)) ELSE v

\* TEXT affinity applied to a value
TextAffinity(v) ==
    IF v.cls = "integer" THEN SqlText(IntToString(v.i)) ELSE v

\* The order of two non-null values: integers before text, integers by value,
\* text by memcmp.
SqlCmp(a, b) ==
    CASE a.cls = "integer" /\ b.cls = "integer" -> a.i - b.i
      [] a.cls = "integer" /\ b.cls = "text" -> -1
      [] a.cls = "text" /\ b.cls = "integer" -> 1
      [] a.cls = "text" /\ b.cls = "text" -> StrCmp(a.s, b.s)

\* LIKE folds ASCII upper case to lower case.
Fold(code) == IF code >= 65 /\ code <= 90 THEN code + 32 ELSE code

RECURSIVE LikeMatch(_, _)
\* text LIKE pattern: % matches any run of characters
LikeMatch(pattern, text) ==
    IF pattern = <<>> THEN text = <<>>
    ELSE IF pattern[1] = "%"
         THEN \E k \in 0..Len(text) :
                 LikeMatch(Tail(pattern), SubSeq(text, k + 1, Len(text)))
    ELSE /\ text # <<>>
         /\ Fold(AsciiCode(pattern[1])) = Fold(AsciiCode(text[1]))
         /\ LikeMatch(Tail(pattern), Tail(text))

(***************************************************************************)
(* Reading the text.  Binding first: the k-th ? of the text takes the k-th *)
(* parameter.                                                              *)
(***************************************************************************)
CountQ(sql, i) == Cardinality({j \in 1..i : sql[j] = "?"})

\* rusqlite refuses a statement whose parameter count differs from its ?s.
ParamCountOk(sql, params) == CountQ(sql, Len(sql)) = Len(params)

Bind(sql, params) ==
    [i \in 1..Len(sql) |->
        IF sql[i] = "?" THEN [tok |-> "?", val |-> params[CountQ(sql, i)]]
        ELSE [tok |-> sql[i]]]

Toks(b) == [i \in 1..Len(b) |-> b[i].tok]

TokIndex(b, t) ==
    IF \E i \in 1..Len(b) : b[i].tok = t
    THEN CHOOSE i \in 1..Len(b) : b[i].tok = t /\ \A j \in 1..(i - 1) : b[j].tok # t
    ELSE 0

RECURSIVE Split(_, _)
SplitAt(b, sep, i) ==
    IF i = 0 THEN <<b>>
    ELSE <<SubSeq(b, 1, i - 1)>> \o Split(SubSeq(b, i + 1, Len(b)), sep)

\* the pieces of a token sequence between the separators
Split(b, sep) == SplitAt(b, sep, TokIndex(b, sep))

Keywords ==
    {"SELECT", "FROM", "WHERE", "AND", "OR", "ORDER", "BY", "ASC", "DESC", "LIMIT",
     "LIKE", "INSERT", "INTO", "VALUES", "UPDATE", "SET", "DELETE", "CREATE",
     "TABLE", "IF", "NOT", "EXISTS", "DROP", "INTEGER", "PRIMARY", "KEY", "TEXT"}

Punctuation == {"(", ")", ",", "=", "<", ">", "?", ";", "'", "--"}

IsIdentifier(t) == t \notin Keywords /\ t \notin Punctuation /\ ~IsDigit(t)

SingleIdentifiers(pieces) ==
    \A i \in 1..Len(pieces) : Len(pieces[i]) = 1 /\ IsIdentifier(pieces[i][1].tok)

\* An operand of a comparison: a parameter, a one-digit literal or a column.
OperandOk(tbl, x) ==
    x.tok = "?" \/ IsDigit(x.tok) \/ (IsIdentifier(x.tok) /\ ColIndex(tbl, x.tok) # 0)

OperandValue(tbl, row, x) ==
    IF x.tok = "?" THEN x.val
    ELSE IF IsDigit(x.tok) THEN SqlInt(DigitVal(x.tok))
    ELSE row.cells[ColIndex(tbl, x.tok)]

\* The affinity of an operand: a column's declared one, none otherwise.
OperandAffinity(tbl, x) ==
    IF x.tok = "?" \/ IsDigit(x.tok) THEN "NONE"
    ELSE IF tbl.cols[ColIndex(tbl, x.tok)].pk THEN "INTEGER" ELSE "TEXT"

ComparisonOk(tbl, c) ==
    /\ Len(c) = 3
    /\ c[2].tok \in {"=", "<", ">", "LIKE"}
    /\ OperandOk(tbl, c[1])
    /\ OperandOk(tbl, c[3])

\* SQLite's comparison affinity: a value facing an INTEGER column is read as a
\* number when it can be; a value with no affinity facing a TEXT column is
\* turned into text.
Coerce(v, own, other) ==
    IF other = "INTEGER" /\ own # "INTEGER" THEN NumericAffinity(v)
    ELSE IF other = "TEXT" /\ own = "NONE" THEN TextAffinity(v)
    ELSE v

Holds(op, d) ==
    CASE op = "=" -> d = 0
      [] op = "<" -> d < 0
      [] op = ">" -> d > 0

Compare(op, lv, la, rv, ra) ==
    IF lv.cls = "null" \/ rv.cls = "null" THEN FALSE
    ELSE IF op = "LIKE" THEN LikeMatch(TextAffinity(rv).s, TextAffinity(lv).s)
    ELSE Holds(op, SqlCmp(Coerce(lv, la, ra), Coerce(rv, ra, la)))

\* A condition: comparisons joined by AND, those joined by OR.
ConditionOk(tbl, cond) ==
    \A d \in Range(Split(cond, "OR")) :
        \A c \in Range(Split(d, "AND")) : ComparisonOk(tbl, c)

EvalCondition(tbl, row, cond) ==
    \E d \in Range(Split(cond, "OR")) :
        \A c \in Range(Split(d, "AND")) :
            Compare(c[2].tok, OperandValue(tbl, row, c[1]), OperandAffinity(tbl, c[1]),
                    OperandValue(tbl, row, c[3]), OperandAffinity(tbl, c[3]))

\* The rows of a table a condition holds for (all of them when there is none).
Matching(tbl, cond) ==
    SelectSeq(tbl.rows, LAMBDA row : cond = <<>> \/ EvalCondition(tbl, row, cond))

(***************************************************************************)
(* SELECT <cols> FROM <table> [WHERE <condition>] [ORDER BY <col> ASC|DESC] *)
(* [LIMIT <n>]                                                             *)
(***************************************************************************)
SelectClauses(b, fromIdx, whereIdx, orderIdx, limitIdx) ==
    LET orderEnd == IF limitIdx > 0 THEN limitIdx - 1 ELSE Len(b)
        whereEnd == IF orderIdx > 0 THEN orderIdx - 1 ELSE orderEnd
        first == IF whereIdx > 0 THEN whereIdx
                 ELSE IF orderIdx > 0 THEN orderIdx
                 ELSE IF limitIdx > 0 THEN limitIdx ELSE Len(b) + 1
        cols == Split(SubSeq(b, 2, fromIdx - 1), ",")
        order == SubSeq(b, orderIdx + 2, orderEnd)
        limit == SubSeq(Toks(b), limitIdx + 1, Len(b))
        ok == /\ Len(b) >= 4
              /\ b[1].tok = "SELECT"
              /\ fromIdx >= 3
              /\ SingleIdentifiers(cols)
              /\ Len(b) >= fromIdx + 1
              /\ IsIdentifier(b[fromIdx + 1].tok)
              /\ first = fromIdx + 2
              /\ (whereIdx > 0 => whereEnd > whereIdx)
              /\ (orderIdx > 0 =>
                    /\ orderIdx > whereIdx
                    /\ b[orderIdx + 1].tok = "BY"
                    /\ Len(order) = 2
                    /\ IsIdentifier(order[1].tok)
                    /\ order[2].tok \in {"ASC", "DESC"})
              /\ (limitIdx > 0 =>
                    /\ limitIdx > whereIdx
                    /\ limitIdx > orderIdx
                    /\ AllDigits(limit))
    IN  IF ~ok THEN [ok |-> FALSE]
        ELSE [ok |-> TRUE,
              cols |-> [i \in 1..Len(cols) |-> cols[i][1].tok],
              table |-> b[fromIdx + 1].tok,
              cond |-> IF whereIdx > 0 THEN SubSeq(b, whereIdx + 1, whereEnd) ELSE <<>>,
              order |-> IF orderIdx > 0 THEN Toks(order) ELSE <<>>,
              limit |-> IF limitIdx > 0 THEN DigitsValue(limit) ELSE -1]

\* r goes in front of s under the ordering term
SortsBefore(r, s, idx, asc) ==
    IF asc THEN SqlCmp(r.cells[idx], s.cells[idx]) < 0
    ELSE SqlCmp(s.cells[idx], r.cells[idx]) < 0

\* the place of r in the sorted rows: behind every row it does not sort before
SortPosition(out, r, idx, asc) ==
    LET before == {j \in 1..Len(out) : SortsBefore(r, out[j], idx, asc)}
    IN  IF before = {} THEN Len(out) + 1
        ELSE CHOOSE j \in before : \A k \in before : j <= k

RECURSIVE SortRows(_, _, _)
SortInto(out, r, idx, asc) ==
    SubSeq(out, 1, SortPosition(out, r, idx, asc) - 1) \o <<r>>
        \o SubSeq(out, SortPosition(out, r, idx, asc), Len(out))

\* The sorter: rows with equal keys stay in scan order.
SortRows(rows, idx, asc) ==
    IF rows = <<>> THEN <<>>
    ELSE SortInto(SortRows(SubSeq(rows, 1, Len(rows) - 1), idx, asc), rows[Len(rows)],
                  idx, asc)

\* LIMIT n (n < 0: no LIMIT)
Take(s, n) == IF n < 0 \/ n >= Len(s) THEN s ELSE SubSeq(s, 1, n)

Project(tbl, cols, rows) ==
    [i \in 1..Len(rows) |-> [k \in 1..Len(cols) |-> rows[i].cells[ColIndex(tbl, cols[k])]]]

SelectFrom(tbl, q) ==
    IF \/ \E i \in 1..Len(q.cols) : ColIndex(tbl, q.cols[i]) = 0
       \/ (q.cond # <<>> /\ ~ConditionOk(tbl, q.cond))
       \/ (q.order # <<>> /\ ColIndex(tbl, q.order[1]) = 0)
    THEN Err("no such column")
    ELSE IF q.order = <<>>
    THEN Ok(Project(tbl, q.cols, Take(Matching(tbl, q.cond), q.limit)))
    ELSE Ok(Project(tbl, q.cols,
                    Take(SortRows(Matching(tbl, q.cond), ColIndex(tbl, q.order[1]),
                                  q.order[2] = "ASC"),
                         q.limit)))

RunSelect(db, q) ==
    IF ~q.ok THEN Err("syntax error")
    ELSE IF ~HasTable(db, q.table) THEN Err("no such table")
    ELSE SelectFrom(db[q.table], q)

\* Connection::prepare + query_map: Ok(the rows, each the projected cells in
\* order) or Err.
EngineQuery(db, sql, params) ==
    IF ~ParamCountOk(sql, params) THEN Err("wrong number of parameters")
    ELSE RunSelect(db, SelectClauses(Bind(sql, params),
                                     IndexOf(sql, "FROM"), IndexOf(sql, "WHERE"),
                                     IndexOf(sql, "ORDER"), IndexOf(sql, "LIMIT")))

(***************************************************************************)
(* Connection::execute: the statements that write.  Each yields the new    *)
(* tables, Ok(rows changed) or Err, and the rowid last_insert_rowid()      *)
(* reports after it.  A statement that fails changes nothing.              *)
(***************************************************************************)
Outcome(db, res, rowid) == [db |-> db, res |-> res, rowid |-> rowid]

Failed(db, e) == Outcome(db, Err(e), 0)

MaxRowid(rows) ==
    IF rows = <<>> THEN 0
    ELSE CHOOSE m \in {rows[i].rowid : i \in 1..Len(rows)} :
            \A i \in 1..Len(rows) : rows[i].rowid <= m

\* rows kept in the order they arrived
PlaceRowLast(rows, row) == Append(rows, row)

\* The b-tree keeps a table's rows by ascending rowid.
PlaceRow(rows, row) ==
    SelectSeq(rows, LAMBDA r : r.rowid < row.rowid) \o <<row>>
        \o SelectSeq(rows, LAMBDA r : r.rowid > row.rowid)

WithRows(db, t, rows) == [db EXCEPT ![t].rows = rows]

\* CREATE TABLE [IF NOT EXISTS] <table> ( <name> INTEGER PRIMARY KEY | <name> TEXT , ... )
IsPkDef(d) ==
    Len(d) = 4 /\ d[2].tok = "INTEGER" /\ d[3].tok = "PRIMARY" /\ d[4].tok = "KEY"

CreateParsed(db, b, guarded, at, defs) ==
    IF ~(/\ Len(b) >= at + 4
         /\ Toks(SubSeq(b, 1, 2)) = <<"CREATE", "TABLE">>
         /\ IsIdentifier(b[at].tok)
         /\ b[at + 1].tok = "("
         /\ b[Len(b)].tok = ")"
         /\ \A i \in 1..Len(defs) :
               /\ defs[i] # <<>>
               /\ IsIdentifier(defs[i][1].tok)
               /\ (IsPkDef(defs[i]) \/ (Len(defs[i]) = 2 /\ defs[i][2].tok = "TEXT"))
         /\ Cardinality({i \in 1..Len(defs) : IsPkDef(defs[i])}) <= 1)
    THEN Failed(db, "syntax error")
    ELSE IF HasTable(db, b[at].tok)
    THEN (IF guarded THEN Outcome(db, Ok(0), 0) ELSE Failed(db, "table already exists"))
    ELSE Outcome(
            [x \in DOMAIN db \cup {b[at].tok} |->
                IF x = b[at].tok
                THEN Table([i \in 1..Len(defs) |->
                              [name |-> defs[i][1].tok, pk |-> IsPkDef(defs[i])]], <<>>)
                ELSE db[x]],
            Ok(0), 0)

ExecCreate(db, b) ==
    IF Len(b) >= 5 /\ Toks(SubSeq(b, 3, 5)) = <<"IF", "NOT", "EXISTS">>
    THEN CreateParsed(db, b, TRUE, 6, Split(SubSeq(b, 8, Len(b) - 1), ","))
    ELSE CreateParsed(db, b, FALSE, 3, Split(SubSeq(b, 5, Len(b) - 1), ","))

\* DROP TABLE [IF EXISTS] <table>
DropAt(db, b, guarded, at) ==
    IF ~(Len(b) = at /\ Toks(SubSeq(b, 1, 2)) = <<"DROP", "TABLE">>
         /\ IsIdentifier(b[at].tok))
    THEN Failed(db, "syntax error")
    ELSE IF ~HasTable(db, b[at].tok)
    THEN (IF guarded THEN Outcome(db, Ok(0), 0) ELSE Failed(db, "no such table"))
    ELSE Outcome([x \in DOMAIN db |-> IF x = b[at].tok THEN NoTable ELSE db[x]], Ok(0), 0)

ExecDrop(db, b) ==
    IF Len(b) >= 4 /\ Toks(SubSeq(b, 3, 4)) = <<"IF", "EXISTS">>
    THEN DropAt(db, b, TRUE, 5)
    ELSE DropAt(db, b, FALSE, 3)

\* A value as a column of the table stores it: the rowid column takes integers
\* and text that reads as one, a TEXT column turns numbers into text.
Stored(col, v) == IF col.pk THEN NumericAffinity(v) ELSE TextAffinity(v)

LastIndex(names, name) ==
    IF \E i \in 1..Len(names) : names[i] = name
    THEN CHOOSE i \in 1..Len(names) :
            names[i] = name /\ \A j \in (i + 1)..Len(names) : names[j] # name
    ELSE 0

\* the value a statement gives a column, or old when it names no such column
Assigned(col, old, values, at) ==
    IF at = 0 THEN old ELSE Stored(col, values[at])

NewCells(tbl, old, names, values) ==
    [k \in 1..Len(tbl.cols) |->
        Assigned(tbl.cols[k], old[k], values, LastIndex(names, tbl.cols[k].name))]

StoreRow(db, t, rowid, cells, pk) ==
    IF \E i \in 1..Len(db[t].rows) : db[t].rows[i].rowid = rowid
    THEN Failed(db, "UNIQUE constraint failed")
    ELSE Outcome(WithRows(db, t,
                     PlaceRow(db[t].rows,
                              Row(rowid, [k \in 1..Len(cells) |->
                                             IF k = pk THEN SqlInt(rowid) ELSE cells[k]]))),
                 Ok(1), rowid)

InsertCells(db, t, cells, pk) ==
    IF pk # 0 /\ cells[pk].cls = "text" THEN Failed(db, "datatype mismatch")
    ELSE StoreRow(db, t,
                  IF pk = 0 \/ cells[pk].cls = "null" THEN MaxRowid(db[t].rows) + 1
                  ELSE cells[pk].i,
                  cells, pk)

InsertInto(db, t, names, values) ==
    IF ~HasTable(db, t) THEN Failed(db, "no such table")
    ELSE IF \E i \in 1..Len(names) : ColIndex(db[t], names[i]) = 0
    THEN Failed(db, "no such column")
    ELSE InsertCells(db, t,
                     NewCells(db[t], [k \in 1..Len(db[t].cols) |-> SqlNull], names, values),
                     PkIndex(db[t]))

InsertParsed(db, b, close, cols, vals) ==
    IF ~(/\ Len(b) >= 10
         /\ Toks(SubSeq(b, 1, 2)) = <<"INSERT", "INTO">>
         /\ IsIdentifier(b[3].tok)
         /\ b[4].tok = "("
         /\ close >= 6
         /\ Len(b) >= close + 4
         /\ b[close + 1].tok = "VALUES"
         /\ b[close + 2].tok = "("
         /\ b[Len(b)].tok = ")"
         /\ SingleIdentifiers(cols)
         /\ \A i \in 1..Len(vals) : Len(vals[i]) = 1 /\ vals[i][1].tok = "?"
         /\ Len(vals) = Len(cols))
    THEN Failed(db, "syntax error")
    ELSE InsertInto(db, b[3].tok, [i \in 1..Len(cols) |-> cols[i][1].tok],
                    [i \in 1..Len(vals) |-> vals[i][1].val])

InsertClosed(db, b, close) ==
    InsertParsed(db, b, close, Split(SubSeq(b, 5, close - 1), ","),
                 Split(SubSeq(b, close + 3, Len(b) - 1), ","))

\* INSERT INTO <table> ( <col> , ... ) VALUES ( ? , ... )
ExecInsert(db, b) == InsertClosed(db, b, TokIndex(b, ")"))

DeleteRows(db, t, kept) ==
    Outcome(WithRows(db, t, kept), Ok(Len(db[t].rows) - Len(kept)), 0)

DeleteFrom(db, t, cond) ==
    IF ~HasTable(db, t) THEN Failed(db, "no such table")
    ELSE IF ~ConditionOk(db[t], cond) THEN Failed(db, "no such column")
    ELSE DeleteRows(db, t,
                    SelectSeq(db[t].rows, LAMBDA row : ~EvalCondition(db[t], row, cond)))

\* DELETE FROM <table> WHERE <condition>
ExecDelete(db, b) ==
    IF ~(/\ Len(b) >= 5
         /\ Toks(SubSeq(b, 1, 2)) = <<"DELETE", "FROM">>
         /\ IsIdentifier(b[3].tok)
         /\ b[4].tok = "WHERE")
    THEN Failed(db, "syntax error")
    ELSE DeleteFrom(db, b[3].tok, SubSeq(b, 5, Len(b)))

RECURSIVE ByRowid(_)
ByRowid(rows) ==
    IF rows = <<>> THEN <<>> ELSE PlaceRow(ByRowid(Tail(rows)), rows[1])

\* the rows after an UPDATE, given every row's new cells
UpdateRows(db, t, pk, hits, cells) ==
    IF hits = {} THEN Outcome(db, Ok(0), 0)
    ELSE IF pk # 0 /\ \E i \in hits : cells[i][pk].cls # "integer"
    THEN Failed(db, "datatype mismatch")
    ELSE IF pk # 0 /\ \E i, j \in 1..Len(cells) : i # j /\ cells[i][pk] = cells[j][pk]
    THEN Failed(db, "UNIQUE constraint failed")
    ELSE Outcome(WithRows(db, t,
                     ByRowid([i \in 1..Len(cells) |->
                                 Row(IF pk # 0 THEN cells[i][pk].i ELSE db[t].rows[i].rowid,
                                     cells[i])])),
                 Ok(Cardinality(hits)), 0)

UpdateHits(db, t, names, values, hits) ==
    UpdateRows(db, t, PkIndex(db[t]), hits,
               [i \in 1..Len(db[t].rows) |->
                   IF i \in hits THEN NewCells(db[t], db[t].rows[i].cells, names, values)
                   ELSE db[t].rows[i].cells])

UpdateTable(db, t, names, values, cond) ==
    IF ~HasTable(db, t) THEN Failed(db, "no such table")
    ELSE IF \/ \E i \in 1..Len(names) : ColIndex(db[t], names[i]) = 0
            \/ ~ConditionOk(db[t], cond)
    THEN Failed(db, "no such column")
    ELSE UpdateHits(db, t, names, values,
                    {i \in 1..Len(db[t].rows) : EvalCondition(db[t], db[t].rows[i], cond)})

UpdateParsed(db, b, whereIdx, sets) ==
    IF ~(/\ Len(b) >= 8
         /\ b[1].tok = "UPDATE"
         /\ IsIdentifier(b[2].tok)
         /\ b[3].tok = "SET"
         /\ whereIdx >= 7
         /\ Len(b) > whereIdx
         /\ \A i \in 1..Len(sets) :
               /\ Len(sets[i]) = 3
               /\ IsIdentifier(sets[i][1].tok)
               /\ sets[i][2].tok = "="
               /\ sets[i][3].tok = "?")
    THEN Failed(db, "syntax error")
    ELSE UpdateTable(db, b[2].tok, [i \in 1..Len(sets) |-> sets[i][1].tok],
                     [i \in 1..Len(sets) |-> sets[i][3].val],
                     SubSeq(b, whereIdx + 1, Len(b)))

UpdateWhere(db, b, whereIdx) ==
    UpdateParsed(db, b, whereIdx, Split(SubSeq(b, 4, whereIdx - 1), ","))

\* UPDATE <table> SET <col> = ? , ... WHERE <condition>
ExecUpdate(db, b) == UpdateWhere(db, b, TokIndex(b, "WHERE"))

Dispatch(db, b) ==
    CASE b[1].tok = "CREATE" -> ExecCreate(db, b)
      [] b[1].tok = "DROP" -> ExecDrop(db, b)
      [] b[1].tok = "INSERT" -> ExecInsert(db, b)
      [] b[1].tok = "DELETE" -> ExecDelete(db, b)
      [] b[1].tok = "UPDATE" -> ExecUpdate(db, b)
      [] OTHER -> Failed(db, "syntax error")

\* Connection::execute(sql, params)
EngineExecute(db, sql, params) ==
    IF ~ParamCountOk(sql, params) THEN Failed(db, "wrong number of parameters")
    ELSE IF sql = <<>> THEN Failed(db, "syntax error")
    ELSE Dispatch(db, Bind(sql, params))

(***************************************************************************)
(* Database (db.rs).  Each operation is a function of the tables: the new  *)
(* tables, what the caller gets back, and the statements it issued.        *)
(***************************************************************************)
Call(db, res, issued) == [db |-> db, res |-> res, stmts |-> issued]

\* The probes of row_to_model on one column: i64, then String, then f64
\* (rusqlite reads an i64 from an INTEGER cell only, a String from a TEXT cell
\* only; the engine stores no REAL here), else Null.
ProbeColumn(cell) ==
    IF cell.cls = "integer" THEN JNumber(cell.i)
    ELSE IF cell.cls = "text" THEN JString(cell.s)
    ELSE JNull

\* serde_json::from_value into one attribute of the struct: serde_json's own
\* Deserializer, which takes a Number for an integer and a String for a String.
FromValueOk(kind, value) ==
    IF kind = "i32" THEN value.j = "Number" ELSE value.j = "String"

\* serde_json::from_value::<T> of the Object row_to_model builds
from_value(T, json_map) ==
    IF \A f \in Range(StructFields(T)) :
            f \in DOMAIN json_map /\ FromValueOk(FieldKind(T, f), json_map[f])
    THEN Ok([f \in Range(StructFields(T)) |-> IF FieldKind(T, f) = "i32" THEN json_map[f].n ELSE json_map[f].s])
    ELSE Err("FromSqlConversionFailure")

\* Database::row_to_model (and query.rs's copy of it)
row_to_model(T, row) ==
    from_value(T, [f \in Range(fields(T)) |->
                      IF IndexOf(fields(T), f) <= Len(row)
                      THEN ProbeColumn(row[IndexOf(fields(T), f)]) ELSE JNull])

\* self.conn.execute(&sql, [])?; Ok(())
Unit(out, st) == Call(out.db, IF out.res.ok THEN Ok(<<>>) ELSE out.res, <<st>>)

Execute(db, st) == EngineExecute(db, st.sql, st.params)

\* Database::create_table
create_table(db, T) ==
    Unit(Execute(db, Statement(CreateTableSql(T), <<>>)), Statement(CreateTableSql(T), <<>>))

\* Database::drop_table
drop_table(db, T) ==
    Unit(Execute(db, Statement(DropTableSql(T), <<>>)), Statement(DropTableSql(T), <<>>))

\* the outcome of execute dropped: last_insert_rowid() whatever it was
InsertedUnchecked(out, st) == Call(out.db, Ok(out.rowid), <<st>>)

\* Ok(self.conn.last_insert_rowid()), read right after the INSERT
Inserted(out, st) == Call(out.db, IF out.res.ok THEN Ok(out.rowid) ELSE out.res, <<st>>)

InsertStatement(T, json_obj) ==
    Statement(InsertSql(T),
              [i \in 1..Len(fields(T)) |-> SqlText(value_str(json_obj[fields(T)[i]]))])

\* a field the mapping lacks taken as Value::Null, and bound as such
InsertObjectLenient(db, T, json_obj) ==
    Inserted(Execute(db, InsertStatement(T, [f \in Range(fields(T)) |->
                                                IF f \in DOMAIN json_obj THEN json_obj[f]
                                                ELSE JNull])),
             InsertStatement(T, [f \in Range(fields(T)) |->
                                    IF f \in DOMAIN json_obj THEN json_obj[f] ELSE JNull]))

InsertObject(db, T, json_obj) ==
    IF \E i \in 1..Len(fields(T)) : fields(T)[i] \notin DOMAIN json_obj
    THEN Call(db, Err("InvalidQuery"), <<>>)
    ELSE Inserted(Execute(db, InsertStatement(T, json_obj)), InsertStatement(T, json_obj))

\* Database::insert
insert(db, T, model) == InsertObject(db, T, to_value(T, model))

\* prepare and query_map, then the loop over the rows: the first row that
\* fails ends it with Err
Selected(db, T, rows, st) ==
    Call(db,
         IF ~rows.ok THEN rows
         ELSE IF \E i \in 1..Len(rows.v) : ~row_to_model(T, rows.v[i]).ok
         THEN Err("FromSqlConversionFailure")
         ELSE Ok([i \in 1..Len(rows.v) |-> row_to_model(T, rows.v[i]).v]),
         <<st>>)

Query(db, st) == EngineQuery(db, st.sql, st.params)

\* Database::select_all
select_all(db, T) ==
    Selected(db, T, Query(db, Statement(SelectAllSql(T), <<>>)),
             Statement(SelectAllSql(T), <<>>))

\* rows.next(): the first row, converted, or None
FirstOf(T, rows) ==
    IF ~rows.ok THEN rows
    ELSE IF rows.v = <<>> THEN Ok(None)
    ELSE IF row_to_model(T, rows.v[1]).ok THEN Ok(Some(row_to_model(T, rows.v[1]).v))
    ELSE Err("FromSqlConversionFailure")

\* Database::find_by_id
find_by_id(db, T, id) ==
    Call(db, FirstOf(T, Query(db, Statement(FindByIdSql(T), <<SqlInt(id)>>))),
         <<Statement(FindByIdSql(T), <<SqlInt(id)>>)>>)

Changed(out, st) == Call(out.db, out.res, <<st>>)

\* Database::delete
delete(db, T, id) ==
    Changed(Execute(db, Statement(DeleteSql(T), <<SqlInt(id)>>)),
            Statement(DeleteSql(T), <<SqlInt(id)>>))

UpdateStatement(T, json_obj) ==
    Statement(UpdateSql(T),
              Append([i \in 1..Len(NonKeyFields(T)) |->
                         SqlText(value_str(json_obj[NonKeyFields(T)[i]]))],
                     SqlText(value_str(json_obj[primary_key(T)]))))

UpdateObject(db, T, json_obj) ==
    IF primary_key(T) \notin DOMAIN json_obj THEN Call(db, Err("InvalidQuery"), <<>>)
    ELSE IF json_obj[primary_key(T)].j \notin {"Number", "String"}
    THEN Call(db, Err("InvalidQuery"), <<>>)
    ELSE IF \E i \in 1..Len(NonKeyFields(T)) : NonKeyFields(T)[i] \notin DOMAIN json_obj
    THEN Call(db, Err("InvalidQuery"), <<>>)
    ELSE Changed(Execute(db, UpdateStatement(T, json_obj)), UpdateStatement(T, json_obj))

\* Database::update
update(db, T, model) == UpdateObject(db, T, to_value(T, model))

(***************************************************************************)
(* QueryBuilder (query.rs).  The builder is a value: every chaining method *)
(* takes it and returns it changed, fetch and fetch_one take it for good.  *)
(* A field argument is the caller's &str, as the tokens it is made of.     *)
(***************************************************************************)
\* An argument for `value: impl ToString`: a &str or an integer.
StrArg(s) == [k |-> "str", s |-> s]

IntArg(n) == [k |-> "int", n |-> n]

to_string(value) == IF value.k = "str" THEN value.s ELSE IntToString(value.n)

\* QueryBuilder::new::<T>; T is also the type the caller fetches as.
new(T) ==
    [live |-> TRUE, T |-> T, table_name |-> table_name(T), fields |-> fields(T),
     where_clauses |-> <<>>, where_values |-> <<>>, order_by |-> None, limit |-> None]

\* self.where_clauses.push(..); self.where_values.push(value.to_string())
Push(b, clause, value) ==
    [b EXCEPT !.where_clauses = Append(@, clause),
              !.where_values = Append(@, to_string(value))]

where_eq(b, field, value) == Push(b, field \o <<"=", "?">>, value)

where_like(b, field, pattern) == Push(b, field \o <<"LIKE", "?">>, pattern)

where_gt(b, field, value) == Push(b, field \o <<">", "?">>, value)

where_lt(b, field, value) == Push(b, field \o <<"<", "?">>, value)

\* an ordering added after the one set before, as a second sort key
order_by_appending(b, field, ascending) ==
    [b EXCEPT !.order_by =
        Some((IF b.order_by.some THEN b.order_by.v \o <<",">> ELSE <<>>)
                 \o field \o <<IF ascending THEN "ASC" ELSE "DESC">>)]

order_by(b, field, ascending) ==
    [b EXCEPT !.order_by = Some(field \o <<IF ascending THEN "ASC" ELSE "DESC">>)]

limit(b, n) == [b EXCEPT !.limit = Some(n)]

\* the text fetch renders
FetchSql(b) ==
    <<"SELECT">> \o Join([i \in 1..Len(b.fields) |-> <<b.fields[i]>>], <<",">>)
        \o <<"FROM", b.table_name>>
        \o (IF b.where_clauses # <<>>
            THEN <<"WHERE">> \o Join(b.where_clauses, <<"AND">>) ELSE <<>>)
        \o (IF b.order_by.some THEN <<"ORDER", "BY">> \o b.order_by.v ELSE <<>>)
        \o (IF b.limit.some THEN <<"LIMIT">> \o NatToString(b.limit.v) ELSE <<>>)

\* every value written into the text between quotes, nothing bound
FetchStatementInline(b) ==
    Statement(FetchSql([b EXCEPT !.where_clauses =
                           [i \in 1..Len(b.where_clauses) |->
                               SubSeq(b.where_clauses[i], 1, Len(b.where_clauses[i]) - 1)
                                   \o <<"'">> \o b.where_values[i] \o <<"'">>]]),
              <<>>)

\* params_from_iter(self.where_values.iter()): every value bound as text
FetchStatement(b) ==
    Statement(FetchSql(b), [i \in 1..Len(b.where_values) |-> SqlText(b.where_values[i])])

\* QueryBuilder::fetch
fetch(db, b) ==
    Selected(db, b.T, Query(db, FetchStatement(b)), FetchStatement(b))

\* an empty result reported as an error, as Connection::query_row does
FirstResultOrError(call) ==
    Call(call.db,
         IF ~call.res.ok THEN call.res
         ELSE IF call.res.v = <<>> THEN Err("QueryReturnedNoRows")
         ELSE Ok(Some(call.res.v[1])),
         call.stmts)

\* Ok(results.into_iter().next())
FirstResult(call) ==
    Call(call.db,
         IF ~call.res.ok THEN call.res
         ELSE IF call.res.v = <<>> THEN Ok(None) ELSE Ok(Some(call.res.v[1])),
         call.stmts)

\* the first of a fetch that keeps the limit set before
fetch_one_keeping_limit(db, b) == FirstResult(fetch(db, b))

\* QueryBuilder::fetch_one
fetch_one(db, b) == FirstResult(fetch(db, limit(b, 1)))

(***************************************************************************)
(* The callers' inputs.                                                    *)
(***************************************************************************)
Al == <<"A", "l">>

\* "Al'; DROP TABLE users; --", the value of test_sql_injection_protection's kind
Evil ==
    <<"A", "l", "'", ";", " ", "D", "R", "O", "P", " ", "T", "A", "B", "L", "E", " ",
      "u", "s", "e", "r", "s", ";", " ", "-", "-">>

Records(T) ==
    IF T = "User" THEN [id : 1..MaxKey, name : {Al, Evil}, email : {<<"e">>}]
    ELSE IF T = "Post"
    THEN [id : {1}, title : {<<"t">>}, content : {<<"o">>}, author_id : {1, 10}]
    ELSE [id : {1}, title : {<<"t">>}]

\* the records the querying callers insert
Fixture(T) ==
    IF T = "User" THEN [id : {1, 2}, name : {Al, Evil}, email : {<<"e">>}]
    ELSE {[id |-> 1, title |-> <<"t">>, content |-> <<"o">>, author_id |-> 10]}

\* the ids the callers ask for: the keys, and one no row has (the 999 of the tests)
Ids == 1..(MaxKey + 1)

NoBuilder == [live |-> FALSE]

\* a field argument that is no field: "1 = 1 OR name"
Injected == <<"1", "=", "1", "OR", "name">>

Arg(field, value) == [field |-> field, value |-> value]

\* what the callers pass to where_eq, where_gt, where_lt, where_like
WhereArgs(T, method) ==
    IF T = "Post"
    THEN (IF method = "where_eq" THEN {Arg(<<"author_id">>, IntArg(10))} ELSE {})
    ELSE CASE method = "where_eq" ->
                {Arg(<<"name">>, StrArg(Evil)), Arg(<<"id">>, StrArg(<<"0", "1">>)),
                 Arg(Injected, StrArg(Al))}
           [] method = "where_gt" -> {Arg(<<"name">>, StrArg(Al))}
           [] method = "where_lt" -> {Arg(<<"id">>, IntArg(2))}
           [] method = "where_like" -> {Arg(<<"name">>, StrArg(<<"a", "l", "'", "%">>))}

OrderArgs(T) == IF T = "User" THEN {<<"name">>, <<"id">>} ELSE {<<"author_id">>}


(***************************************************************************)
(* The program: a connection to a fresh in-memory database, then calls.    *)
(***************************************************************************)
Init ==
    /\ tables = [t \in {table_name(T) : T \in Types \cup DescriptorTypes} |-> NoTable]
    /\ qb = NoBuilder
    /\ stmts = <<>>
    /\ ret = [op |-> "connect_in_memory"]

\* A Database call, made while the caller holds no builder, returns.
Returns(call, r) ==
    /\ qb = NoBuilder
    /\ tables' = call.db
    /\ stmts' = call.stmts
    /\ ret' = [r EXCEPT !.res = call.res]
    /\ UNCHANGED qb

CreateTable(T) ==
    Returns(create_table(tables, T), [op |-> "create_table", T |-> T, res |-> 0])

DropTable(T) ==
    Returns(drop_table(tables, T), [op |-> "drop_table", T |-> T, res |-> 0])

Insert(T, model) ==
    Returns(insert(tables, T, model),
            [op |-> "insert", T |-> T, model |-> model, res |-> 0])

SelectAll(T) ==
    Returns(select_all(tables, T), [op |-> "select_all", T |-> T, res |-> 0])

FindById(T, id) ==
    Returns(find_by_id(tables, T, id),
            [op |-> "find_by_id", T |-> T, id |-> id, res |-> 0])

Delete(T, id) ==
    Returns(delete(tables, T, id), [op |-> "delete", T |-> T, id |-> id, res |-> 0])

Update(T, model) ==
    Returns(update(tables, T, model),
            [op |-> "update", T |-> T, model |-> model, res |-> 0])

\* db.query::<T>(): the caller takes a builder
QueryNew(T) ==
    /\ qb = NoBuilder
    /\ qb' = new(T)
    /\ ret' = [op |-> "query", T |-> T]
    /\ stmts' = <<>>
    /\ UNCHANGED tables

\* A chaining method returns the builder.
Chains(b) ==
    /\ qb' = b
    /\ UNCHANGED <<tables, stmts, ret>>

WhereEq(a) ==
    /\ Len(qb.where_clauses) < MaxPreds
    /\ Chains(where_eq(qb, a.field, a.value))

WhereGt(a) ==
    /\ Len(qb.where_clauses) < MaxPreds
    /\ Chains(where_gt(qb, a.field, a.value))

WhereLt(a) ==
    /\ Len(qb.where_clauses) < MaxPreds
    /\ Chains(where_lt(qb, a.field, a.value))

WhereLike(a) ==
    /\ Len(qb.where_clauses) < MaxPreds
    /\ Chains(where_like(qb, a.field, a.value))

OrderBy(field, ascending) == Chains(order_by(qb, field, ascending))

Limit(n) == Chains(limit(qb, n))

\* fetch and fetch_one taking the builder by reference: it stays the caller's
Borrows(call, r) ==
    /\ tables' = call.db
    /\ stmts' = call.stmts
    /\ ret' = [r EXCEPT !.res = call.res]
    /\ qb' = qb

\* fetch and fetch_one consume the builder
Consumes(call, r) ==
    /\ tables' = call.db
    /\ stmts' = call.stmts
    /\ ret' = [r EXCEPT !.res = call.res]
    /\ qb' = NoBuilder

Fetch == Consumes(fetch(tables, qb), [op |-> "fetch", query |-> qb, res |-> 0])

FetchOne == Consumes(fetch_one(tables, qb), [op |-> "fetch_one", query |-> qb, res |-> 0])

Next ==
    \/ \E T \in Types : CreateTable(T)
    \/ \E T \in Types : DropTable(T)
    \/ \E T \in Types : \E model \in Records(T) : Insert(T, model)
    \/ \E T \in Types : SelectAll(T)
    \/ \E T \in Types : \E id \in Ids : FindById(T, id)
    \/ \E T \in Types : \E id \in Ids : Delete(T, id)
    \/ \E T \in Types : \E model \in Records(T) : Update(T, model)

Spec == Init /\ [][Next]_vars

\* The callers that filter: they fill the tables, then build queries of
\* predicates and run them.
NextQuery ==
    \/ \E T \in Types : CreateTable(T)
    \/ \E T \in Types : \E model \in Fixture(T) : Insert(T, model)
    \/ \E T \in Types : QueryNew(T)
    \/ qb.live /\ \E a \in WhereArgs(qb.T, "where_eq") : WhereEq(a)
    \/ qb.live /\ \E a \in WhereArgs(qb.T, "where_gt") : WhereGt(a)
    \/ qb.live /\ \E a \in WhereArgs(qb.T, "where_lt") : WhereLt(a)
    \/ qb.live /\ \E a \in WhereArgs(qb.T, "where_like") : WhereLike(a)
    \/ qb.live /\ Fetch
    \/ qb.live /\ FetchOne

SpecQuery == Init /\ [][NextQuery]_vars

\* The callers that order and limit: they fill the tables, then build queries
\* of an ordering, a limit and where_lt predicates and run them.
NextOrder ==
    \/ \E T \in Types : CreateTable(T)
    \/ \E T \in Types : \E model \in Fixture(T) : Insert(T, model)
    \/ \E T \in Types : QueryNew(T)
    \/ qb.live /\ \E a \in WhereArgs(qb.T, "where_lt") : WhereLt(a)
    \/ qb.live /\ \E f \in OrderArgs(qb.T) : \E ascending \in BOOLEAN : OrderBy(f, ascending)
    \/ qb.live /\ \E n \in 0..MaxLimit : Limit(n)
    \/ qb.live /\ Fetch
    \/ qb.live /\ FetchOne

SpecOrder == Init /\ [][NextOrder]_vars

\* The callers of a store that holds users and drafts.
NextDescriptor ==
    \/ \E T \in DescriptorTypes : CreateTable(T)
    \/ \E T \in DescriptorTypes : \E model \in Records(T) : Insert(T, model)
    \/ \E T \in DescriptorTypes : \E model \in Records(T) : Update(T, model)
    \/ \E T \in DescriptorTypes : SelectAll(T)

SpecDescriptor == Init /\ [][NextDescriptor]_vars

(***************************************************************************)
(* The claims.                                                             *)
(***************************************************************************)
\* the rows T's table holds, none when there is no table
StoredRows(db, T) ==
    IF HasTable(db, table_name(T)) THEN db[table_name(T)].rows ELSE <<>>

HasKey(db, T, id) ==
    \E i \in 1..Len(StoredRows(db, T)) : StoredRows(db, T)[i].rowid = id

\* the record a stored row stands for: the key, each text attribute as it is,
\* each integer attribute the number its decimal text denotes
Decoded(T, row) ==
    [f \in Range(fields(T)) |->
        IF row.cells[IndexOf(fields(T), f)].cls = "integer"
        THEN row.cells[IndexOf(fields(T), f)].i
        ELSE IF FieldKind(T, f) = "i32"
        THEN TextIntValue(row.cells[IndexOf(fields(T), f)].s)
        ELSE row.cells[IndexOf(fields(T), f)].s]

\* the records of T's table, in the engine's scan order
StoredRecords(db, T) ==
    [i \in 1..Len(StoredRows(db, T)) |-> Decoded(T, StoredRows(db, T)[i])]

\* C1: when insert(r) has succeeded, find_by_id of the id it returned yields
\* Some(r), for every record type.
C1_RoundTrip ==
    (ret.op = "insert" /\ ret.res.ok) =>
        find_by_id(tables, ret.T, ret.res.v).res = Ok(Some(ret.model))

\* C2: every stored Post, whose author_id went into its column as decimal
\* text, is read back by find_by_id and by select_all as a record whose
\* author_id is the number that text denotes.
C2_IntegerAttributeReadBack ==
    \A i \in 1..Len(StoredRows(tables, "Post")) :
        /\ find_by_id(tables, "Post", StoredRows(tables, "Post")[i].rowid).res.ok
        /\ find_by_id(tables, "Post", StoredRows(tables, "Post")[i].rowid).res.v.some
        /\ find_by_id(tables, "Post", StoredRows(tables, "Post")[i].rowid).res.v.v.author_id
              = TextIntValue(StoredRows(tables, "Post")[i].cells[4].s)
        /\ select_all(tables, "Post").res.ok
        /\ select_all(tables, "Post").res.v[i].author_id
              = TextIntValue(StoredRows(tables, "Post")[i].cells[4].s)

\* the records with m put where its key belongs
ByKey(records, m) ==
    SelectSeq(records, LAMBDA r : r.id < m.id) \o <<m>>
        \o SelectSeq(records, LAMBDA r : r.id > m.id)

C8_CreateTableIdempotent ==
    [][(ret'.op = "create_table" /\ HasTable(tables, table_name(ret'.T))) =>
          (ret'.res = Ok(<<>>) /\ tables' = tables)]_vars

\* create_table has returned Ok(()) and the table holds rows
C8_CreatedOverRows ==
    /\ ret.op = "create_table"
    /\ ret.res = Ok(<<>>)
    /\ StoredRows(tables, ret.T) # <<>>

\* C9: drop_table returns Ok(()) and leaves no table, whether or not there
\* was one; a create_table that follows a drop_table of the same type returns
\* Ok(()) and yields a table select_all finds empty.
C9_DropThenCreate ==
    [][/\ ret'.op = "drop_table" =>
            (ret'.res = Ok(<<>>) /\ ~HasTable(tables', table_name(ret'.T)))
       /\ (ret.op = "drop_table" /\ ret'.op = "create_table" /\ ret'.T = ret.T) =>
            (ret'.res = Ok(<<>>) /\ select_all(tables', ret'.T).res = Ok(<<>>))]_vars

\* drop_table has returned Ok(()), the table is gone while the other table
\* still holds rows, and create_table from here yields an empty table
C9_Dropped ==
    /\ ret.op = "drop_table"
    /\ ret.res = Ok(<<>>)
    /\ ~HasTable(tables, table_name(ret.T))
    /\ \E T \in Types : StoredRows(tables, T) # <<>>
    /\ select_all(create_table(tables, ret.T).db, ret.T).res = Ok(<<>>)

\* C10: on an existing table, delete(id) returns Ok(1) when a row has the key,
\* after which find_by_id(id) is None and the table holds one row less; it
\* returns Ok(0) and leaves the tables unchanged when no row has the key.
C10_Delete ==
    [][(ret'.op = "delete" /\ HasTable(tables, table_name(ret'.T))) =>
          IF HasKey(tables, ret'.T, ret'.id)
          THEN /\ ret'.res = Ok(1)
               /\ find_by_id(tables', ret'.T, ret'.id).res = Ok(None)
               /\ Len(StoredRows(tables', ret'.T)) = Len(StoredRows(tables, ret'.T)) - 1
          ELSE /\ ret'.res = Ok(0)
               /\ tables' = tables]_vars

\* delete has removed one of two rows
C10_Deleted ==
    /\ ret.op = "delete"
    /\ ret.res = Ok(1)
    /\ find_by_id(tables, ret.T, ret.id).res = Ok(None)
    /\ Len(StoredRows(tables, ret.T)) = 1

\* the members of a sequence of records
Members(records) == {records[i] : i \in 1..Len(records)}

\* C3: a fetch after where_eq(f, v) alone, f a field of User, returns exactly
\* the stored records whose attribute f serializes to v (value_str), and no
\* other record.
C3_WhereEqExact ==
    (/\ ret.op = "fetch"
     /\ ret.query.T = "User"
     /\ HasTable(tables, "users")
     /\ ~ret.query.limit.some
     /\ Len(ret.query.where_clauses) = 1
     /\ \E f \in Range(fields("User")) : ret.query.where_clauses[1] = <<f, "=", "?">>) =>
        /\ ret.res.ok
        /\ Members(ret.res.v)
              = {r \in Members(StoredRecords(tables, "User")) :
                    value_str(to_value("User", r)[ret.query.where_clauses[1][1]])
                        = ret.query.where_values[1]}

\* C4: a fetch whose only predicate is where_eq("name", v), v a text full of
\* SQL metacharacters, leaves every table as it was, so that select_all
\* returns what it returned before; on an existing table it succeeds, every
\* record it returns has exactly v as its name, and without a limit it
\* returns every stored record that has.
C4_InjectionSafe ==
    [][(/\ ret'.op = "fetch"
        /\ ret'.query.where_clauses = <<(<<"name", "=", "?">>)>>
        /\ ret'.query.where_values = <<Evil>>) =>
          /\ tables' = tables
          /\ select_all(tables', "User").res = select_all(tables, "User").res
          /\ HasTable(tables, "users") =>
                /\ HasTable(tables', "users")
                /\ ret'.res.ok
                /\ \A r \in Members(ret'.res.v) : r.name = Evil
                /\ ~ret'.query.limit.some =>
                      \A r \in Members(StoredRecords(tables, "User")) :
                          r.name = Evil => r \in Members(ret'.res.v)]_vars

\* such a fetch has returned the one record of two that has the name
C4_EvilFetched ==
    /\ ret.op = "fetch"
    /\ ret.query.where_clauses = <<(<<"name", "=", "?">>)>>
    /\ ret.query.where_values = <<Evil>>
    /\ ret.res.ok
    /\ Len(ret.res.v) = 1
    /\ Len(StoredRows(tables, "User")) = 2

\* the type the last call was made for
CalledFor == IF ret.op \in {"fetch", "fetch_one"} THEN ret.query.T ELSE ret.T

\* C5: in every statement a call issues, the SQL text is made of keywords,
\* placeholders and punctuation and of identifiers that come from the Type
\* Descriptor of the call's type (its table name, its fields), nothing of it
\* from a caller's field argument; the digits of the LIMIT count apart, every
\* runtime value is a bound parameter.
C5_TextFromDescriptor ==
    \A i \in 1..Len(stmts) :
        \A k \in 1..Len(stmts[i].sql) :
            \/ stmts[i].sql[k] \in Keywords \cup Punctuation
            \/ stmts[i].sql[k] = table_name(CalledFor)
            \/ stmts[i].sql[k] \in Range(fields(CalledFor))
            \/ /\ IsDigit(stmts[i].sql[k])
               /\ \E j \in 1..(k - 1) : stmts[i].sql[j] = "LIMIT"

\* r goes before s by the value of attribute f in the direction asked for
RecordBefore(T, r, s, f, asc) ==
    IF FieldKind(T, f) = "i32"
    THEN (IF asc THEN r[f] < s[f] ELSE s[f] < r[f])
    ELSE (IF asc THEN StrCmp(r[f], s[f]) < 0 ELSE StrCmp(s[f], r[f]) < 0)

\* C6: order_by(f, ascending).limit(k).fetch, f a field of the type, on an
\* existing table of n records succeeds and returns min(k, n) of the stored
\* records, in the order of f's value in the direction asked for, none of
\* the records left out going before one returned: the k smallest ascending,
\* the k largest descending.
C6_OrderByLimit ==
    (/\ ret.op = "fetch"
     /\ HasTable(tables, table_name(ret.query.T))
     /\ ret.query.where_clauses = <<>>
     /\ ret.query.order_by.some
     /\ ret.query.limit.some
     /\ ret.query.order_by.v[1] \in Range(fields(ret.query.T))) =>
        /\ ret.res.ok
        /\ Len(ret.res.v) = Len(Take(StoredRecords(tables, ret.query.T), ret.query.limit.v))
        /\ Members(ret.res.v) \subseteq Members(StoredRecords(tables, ret.query.T))
        /\ Cardinality(Members(ret.res.v)) = Len(ret.res.v)
        /\ \A i \in 1..Len(ret.res.v) : \A j \in (i + 1)..Len(ret.res.v) :
              ~RecordBefore(ret.query.T, ret.res.v[j], ret.res.v[i],
                            ret.query.order_by.v[1], ret.query.order_by.v[2] = "ASC")
        /\ \A r \in Members(StoredRecords(tables, ret.query.T)) \ Members(ret.res.v) :
              \A x \in Members(ret.res.v) :
                  ~RecordBefore(ret.query.T, r, x,
                                ret.query.order_by.v[1], ret.query.order_by.v[2] = "ASC")

\* C11: update(r) on an existing table returns Ok(1) when a row has r's key,
\* and find_by_id of that key then yields Some(r); it returns Ok(0) and
\* leaves the table as it was when no row has that key.
C11_Update ==
    [][(ret'.op = "update" /\ HasTable(tables, table_name(ret'.T))) =>
          IF HasKey(tables, ret'.T, ret'.model.id)
          THEN /\ ret'.res = Ok(1)
               /\ find_by_id(tables', ret'.T, ret'.model.id).res = Ok(Some(ret'.model))
          ELSE /\ ret'.res = Ok(0)
               /\ tables' = tables]_vars

\* the records of a sequence whose key is not id, in their order
Except(records, id) == SelectSeq(records, LAMBDA r : r.id # id)

\* C12: delete(id) on an existing table removes only the row of that key:
\* select_all then returns the records that were stored under the other
\* keys, unchanged and in the order they had, and find_by_id(id) is None.
C12_DeleteOnlyTarget ==
    [][(ret'.op = "delete" /\ HasTable(tables, table_name(ret'.T))) =>
          /\ select_all(tables', ret'.T).res
                = Ok(Except(StoredRecords(tables, ret'.T), ret'.id))
          /\ find_by_id(tables', ret'.T, ret'.id).res = Ok(None)]_vars

\* the rows the engine selects for a builder's predicates alone
Candidates(db, b) ==
    Query(db, FetchStatement([b EXCEPT !.order_by = None, !.limit = None]))

\* C13: on an existing table find_by_id of a key no row has is Ok(None), and
\* so is a fetch_one whose predicates select no row: neither is an error.
C13_AbsentIsNone ==
    /\ \A T \in Types : \A id \in Ids :
          (HasTable(tables, table_name(T)) /\ ~HasKey(tables, T, id)) =>
              find_by_id(tables, T, id).res = Ok(None)
    /\ (/\ ret.op = "fetch_one"
        /\ HasTable(tables, table_name(ret.query.T))
        /\ Candidates(tables, ret.query) = Ok(<<>>)) =>
           ret.res = Ok(None)

\* a fetch_one with a predicate has found nothing in a table that holds rows,
\* whose keys are not all the ids
C13_NothingFound ==
    /\ ret.op = "fetch_one"
    /\ ret.query.where_clauses # <<>>
    /\ StoredRows(tables, ret.query.T) # <<>>
    /\ ret.res = Ok(None)
    /\ \E id \in Ids : ~HasKey(tables, ret.query.T, id)

\* C14: fetch_one returns what fetch returns for the same predicates and
\* ordering with the limit replaced by 1, whatever limit was set before:
\* Some of its first record, None when it returns no record, its error when
\* it fails; the one statement it issues is that fetch's.
C14_FetchOneIsFetchLimitOne ==
    ret.op = "fetch_one" =>
        /\ stmts = fetch(tables, [ret.query EXCEPT !.limit = Some(1)]).stmts
        /\ ret.res =
             IF ~fetch(tables, [ret.query EXCEPT !.limit = Some(1)]).res.ok
             THEN fetch(tables, [ret.query EXCEPT !.limit = Some(1)]).res
             ELSE IF fetch(tables, [ret.query EXCEPT !.limit = Some(1)]).res.v = <<>>
             THEN Ok(None)
             ELSE Ok(Some(fetch(tables, [ret.query EXCEPT !.limit = Some(1)]).res.v[1]))

\* a fetch_one on a builder whose limit had been set to 0 has found a record
C14_FoundDespiteLimitZero ==
    /\ ret.op = "fetch_one"
    /\ ret.query.limit = Some(0)
    /\ ret.query.order_by.some
    /\ ret.res.ok
    /\ ret.res.v.some

\* the lifecycle state of the caller's builder
Lifecycle(b) ==
    IF ~b.live THEN "Consumed"
    ELSE IF b = new(b.T) THEN "Idle" ELSE "Accumulating"

\* C15: a builder goes from Idle (query()) through Accumulating (where_*,
\* order_by, limit) to Consumed (fetch, fetch_one). Every fetch or fetch_one
\* is made on a live builder and leaves none, so a builder is consumed once
\* and no call is applied to it afterwards: the only builder that appears
\* after a consumption is the Idle one of a new query(), and an accumulating
\* call keeps the type and what was accumulated before.
C15_Lifecycle ==
    [][/\ (ret' # ret /\ ret'.op \in {"fetch", "fetch_one"}) =>
              /\ Lifecycle(qb) \in {"Idle", "Accumulating"}
              /\ ret'.query = qb
              /\ Lifecycle(qb') = "Consumed"
       /\ (qb' # qb /\ Lifecycle(qb) = "Consumed") => Lifecycle(qb') = "Idle"
       /\ (qb' # qb /\ Lifecycle(qb) # "Consumed") =>
              \/ /\ Lifecycle(qb') = "Consumed"
                 /\ ret'.op \in {"fetch", "fetch_one"}
              \/ /\ Lifecycle(qb') = "Accumulating"
                 /\ qb'.T = qb.T
                 /\ Len(qb'.where_clauses) >= Len(qb.where_clauses)
                 /\ SubSeq(qb'.where_clauses, 1, Len(qb.where_clauses)) = qb.where_clauses
                 /\ SubSeq(qb'.where_values, 1, Len(qb.where_values)) = qb.where_values]_vars

\* a builder that accumulated a predicate, an ordering and a limit has been
\* consumed by a fetch
C15_Consumed ==
    /\ ret.op = "fetch"
    /\ Lifecycle(ret.query) = "Accumulating"
    /\ ret.query.where_clauses # <<>>
    /\ ret.query.order_by.some
    /\ ret.query.limit.some
    /\ Lifecycle(qb) = "Consumed"

\* the builder with its i-th predicate alone
Only(b, i) ==
    [b EXCEPT !.where_clauses = <<b.where_clauses[i]>>,
              !.where_values = <<b.where_values[i]>>]

\* the stored rows that the engine selects for each of the predicates alone
SatisfyingAll(db, b) ==
    {i \in 1..Len(StoredRows(db, b.T)) :
        \A k \in 1..Len(b.where_clauses) :
            /\ Candidates(db, Only(b, k)).ok
            /\ StoredRows(db, b.T)[i].cells \in Members(Candidates(db, Only(b, k)).v)}

\* C16: every where_* call appends one fragment and one bound value, the
\* value given, so both lists have the same length and the same order as the
\* calls; a fetch on an existing table binds the values in that order and
\* returns exactly the stored records that satisfy every added predicate.
C16_Conjunction ==
    [][/\ (qb.live /\ qb'.live /\ qb' # qb) =>
              /\ Len(qb'.where_clauses) = Len(qb'.where_values)
              /\ \E m \in {"where_eq", "where_gt", "where_lt", "where_like"} :
                     \E a \in WhereArgs(qb.T, m) :
                         /\ qb'.where_values = Append(qb.where_values, to_string(a.value))
                         /\ Len(qb'.where_clauses) = Len(qb.where_clauses) + 1
                         /\ SubSeq(qb'.where_clauses, 1, Len(qb.where_clauses))
                               = qb.where_clauses
       /\ (ret' # ret /\ ret'.op = "fetch"
               /\ HasTable(tables, table_name(ret'.query.T))) =>
              /\ Len(stmts') = 1
              /\ stmts'[1].params = [i \in 1..Len(ret'.query.where_values) |->
                                        SqlText(ret'.query.where_values[i])]
              /\ ret'.res.ok
              /\ Members(ret'.res.v)
                    = {Decoded(ret'.query.T, StoredRows(tables, ret'.query.T)[i]) :
                          i \in SatisfyingAll(tables, ret'.query)}]_vars

\* C17: order_by and limit each set a single value.  A call that changes the
\* builder's ordering leaves exactly the ordering it was given, with nothing
\* of the one set before, and a call that changes the limit leaves exactly
\* the count it was given; neither touches the fragments, the bound values
\* or the other of the two.
C17_LastOneWins ==
    [][(qb.live /\ qb'.live) =>
          /\ qb'.order_by # qb.order_by =>
                /\ \E f \in OrderArgs(qb.T) : \E ascending \in BOOLEAN :
                       qb' = order_by([qb EXCEPT !.order_by = None], f, ascending)
                /\ qb'.where_clauses = qb.where_clauses
                /\ qb'.where_values = qb.where_values
                /\ qb'.limit = qb.limit
          /\ qb'.limit # qb.limit =>
                /\ \E n \in 0..MaxLimit :
                       qb' = limit([qb EXCEPT !.limit = None], n)
                /\ qb'.where_clauses = qb.where_clauses
                /\ qb'.where_values = qb.where_values
                /\ qb'.order_by = qb.order_by]_vars

\* a builder holding a predicate, an ordering and a limit: every order_by and
\* limit call made on it replaces a value set before
C17_BothSet ==
    /\ qb.live
    /\ qb.where_clauses # <<>>
    /\ qb.order_by.some
    /\ qb.limit.some

\* C18: update(r) changes nothing but the non-key attributes of the row
\* whose key is r's key: the table keeps the same rows under the same keys
\* in the same order, every row under another key is as it was, the row of
\* r's key keeps its key cell, and every other table is untouched.
C18_UpdateFrame ==
    [][ret'.op = "update" =>
          /\ \A U \in Types \ {ret'.T} : tables'[table_name(U)] = tables[table_name(U)]
          /\ HasTable(tables', table_name(ret'.T)) = HasTable(tables, table_name(ret'.T))
          /\ Len(StoredRows(tables', ret'.T)) = Len(StoredRows(tables, ret'.T))
          /\ \A i \in 1..Len(StoredRows(tables, ret'.T)) :
                /\ StoredRows(tables', ret'.T)[i].rowid = StoredRows(tables, ret'.T)[i].rowid
                /\ StoredRows(tables', ret'.T)[i].cells[IndexOf(fields(ret'.T), primary_key(ret'.T))]
                      = StoredRows(tables, ret'.T)[i].cells[IndexOf(fields(ret'.T), primary_key(ret'.T))]
                /\ StoredRows(tables, ret'.T)[i].rowid # ret'.model.id =>
                      StoredRows(tables', ret'.T)[i] = StoredRows(tables, ret'.T)[i]]_vars

\* an update has changed one row of a table that holds a second row, whose
\* name is not the new one
C18_UpdatedOneOfTwo ==
    /\ ret.op = "update"
    /\ ret.T = "User"
    /\ ret.res = Ok(1)
    /\ Len(StoredRows(tables, "User")) = 2
    /\ \E i \in 1..2 :
          /\ StoredRecords(tables, "User")[i].id # ret.model.id
          /\ StoredRecords(tables, "User")[i].name # ret.model.name
    /\ \E i \in 1..2 : StoredRecords(tables, "User")[i] = ret.model

\* C19: an insert the engine rejects, because a row already has the record's
\* key or because the table does not exist, returns an error, and an insert
\* that returns an error leaves every table, schema and rows, as it was.
C19_NoPartialInsert ==
    [][ret'.op = "insert" =>
          /\ (\/ ~HasTable(tables, table_name(ret'.T))
              \/ HasKey(tables, ret'.T, ret'.model.id)) => ~ret'.res.ok
          /\ ~ret'.res.ok => tables' = tables]_vars

\* an insert under a key a row already had has been rejected, the row being
\* a different record
C19_DuplicateRejected ==
    /\ ret.op = "insert"
    /\ ret.res = Err("UNIQUE constraint failed")
    /\ \E i \in 1..Len(StoredRecords(tables, ret.T)) :
          /\ StoredRecords(tables, ret.T)[i].id = ret.model.id
          /\ StoredRecords(tables, ret.T)[i] # ret.model

\* a field T's descriptor declares is absent from what a T serializes to
LacksField(T) == \E f \in Range(fields(T)) : f \notin Range(StructFields(T))

====
